---- MODULE Spec2Model ----
(***************************************************************************)
(* A model of gen_pickle.py: the batch job that turns the traffic-sign     *)
(* annotation files into two pickled datasets.                             *)
(*                                                                         *)
(* Representation.  An image is a sequence of IMG_HEIGHT rows, each a      *)
(* sequence of IMG_WIDTH pixels; the channel axis is not modelled (a pixel *)
(* stands for its luma, the only plane preproc changes, and no flip        *)
(* touches the channel axis).  A numpy array is a sequence of its entries  *)
(* along axis 0, v, with the type of its elements, dtype; classIds, of     *)
(* shape (N, 1), is the sequence of its N class ids.  Arrays are objects:  *)
(* `heap` holds them, and a python name or argument holds the address      *)
(* (index into heap) of the array it is bound to, so that writing into an  *)
(* argument and returning a fresh array are different behaviours.          *)
(***************************************************************************)
EXTENDS Integers, Sequences, FiniteSets

VARIABLES
    pc,         \* position: of main (Spec) or of the single call (SpecCall)
    n_classes,  \* model.NUM_CLASSES, a constant of a module outside src/
    fs,         \* contents of the annotation files: csv path -> rows
    heap,       \* the numpy arrays allocated so far
    locals,     \* main's local names
    call,       \* SpecCall: the function called, its arguments, its result
    common,     \* common.TRAIN_SIZE and common.TEST_SIZE (outside src/)
    dumped,     \* what joblib.dump has written: <<[pkl_fname, save]>>
    trace       \* the stages main has run, each with the dataset it ran on

vars == <<pc, n_classes, fs, heap, locals, call, common, dumped, trace>>

(***************************************************************************)
(* Bounds of the model.                                                    *)
(***************************************************************************)
\* model.IMG_HEIGHT and model.IMG_WIDTH (defined outside src/): the size
\* every cropped region is resized to.
IMG_HEIGHT == 2
IMG_WIDTH == 2
\* Largest number of samples in an array handed to a function.
MaxLen == 2
\* Largest value of model.NUM_CLASSES (GTSRB has 43 classes).
MaxNumClasses == 44
\* Values of model.NUM_CLASSES for which aug_by_flip is given arrays of
\* more than one sample: GTSRB's 43 and the smallest value that cuts a
\* class-changing pair in two.
NumClassesValues == {20, 43}

(***************************************************************************)
(* Sequences and images.                                                   *)
(***************************************************************************)
Reverse(s) == [i \in 1..Len(s) |-> s[Len(s) + 1 - i]]

Array(d, v) == [dtype |-> d, v |-> v]

\* The type numpy gives to the elements of an array put together from two:
\* the wider type, among the types that occur here.
DtypeRank(d) ==
    CASE d = "uint8" -> 1 [] d = "int32" -> 2 [] d = "int64" -> 3 [] d = "float64" -> 4
Promote(d, e) == IF DtypeRank(d) >= DtypeRank(e) THEN d ELSE e
IsIntegerDtype(d) == d \in {"uint8", "int32", "int64"}

\* np.append(a, b, axis=0): a new array, whether or not b has entries
NpAppend(a, b) == Array(Promote(a.dtype, b.dtype), a.v \o b.v)

\* arr[idxes]: numpy's indexing of axis 0 by an index array (a copy)
Take(arr, idxes) == Array(arr.dtype, [k \in 1..Len(idxes) |-> arr.v[idxes[k]]])

\* c in arr, for a one-dimensional array held as the set of its entries
In(c, arr) == c \in arr

\* src[:, ::-1, :, :]: axis 1 (the rows of each image) reversed
FlipAxis1(src) == Array(src.dtype, [k \in 1..Len(src.v) |-> Reverse(src.v[k])])

\* src[:, :, ::-1, :]: axis 2 (the columns of each image) reversed
FlipAxis2(src) ==
    Array(src.dtype, [k \in 1..Len(src.v) |-> [r \in 1..Len(src.v[k]) |-> Reverse(src.v[k][r])]])

\* An image whose pixels are all different and different from those of
\* every Img(j), j # i: the sample it belongs to and the way it has been
\* flipped can be read off it.
Img(i) == [r \in 1..IMG_HEIGHT |-> [c \in 1..IMG_WIDTH |->
              (i - 1) * IMG_HEIGHT * IMG_WIDTH + (r - 1) * IMG_WIDTH + c]]

(***************************************************************************)
(* aug_by_flip                                                             *)
(***************************************************************************)
\* The three label-preserving tables are only ever asked `c in table`: each
\* is held as the set of its entries.
hflip_cls == {11, 12, 13, 15, 17, 18, 22, 26, 30, 35}
vflip_cls == {1, 5, 12, 15, 17}
hvflip_cls == {32, 40}
hflip_cls_changed ==
    << <<19, 20>>, <<33, 34>>, <<36, 37>>, <<38, 39>>,
       <<20, 19>>, <<34, 33>>, <<37, 36>>, <<39, 38>> >>

\* hflip_cls_changed[:, 0]
ChangedFrom == {hflip_cls_changed[i][1] : i \in 1..Len(hflip_cls_changed)}

\* Mutant: the flipped copies keep the class of their source.
ChangedToSelf(c) == c

\* hflip_cls_changed[hflip_cls_changed[:, 0] == c][0][1]
ChangedTo(c) ==
    LET first == CHOOSE i \in 1..Len(hflip_cls_changed) :
                    /\ hflip_cls_changed[i][1] = c
                    /\ \A j \in 1..(i - 1) : hflip_cls_changed[j][1] # c
    IN  hflip_cls_changed[first][2]

\* np.where(classIds == c)[0]: the indices of the samples of class c, ascending
Where(classIds, c) ==
    LET IsC(i) == classIds.v[i] = c
    IN  SelectSeq([i \in 1..Len(classIds.v) |-> i], IsC)

\* np.asarray([... for i in range(len(srcIds))]): one entry per sample,
\* integers of the table's type; of no sample, the empty list, which numpy
\* makes an array of float64
DstIds(c, srcIds) ==
    Array(IF Len(srcIds.v) = 0 THEN "float64" ELSE "int64",
          [i \in 1..Len(srcIds.v) |-> c])

\* One turn of the loop over the classes: what class c appends to
\* (aug_bboxes, aug_classIds).
AugClass(c, bboxes, classIds, aug) ==
    LET idxes == Where(classIds, c)
        src == Take(bboxes, idxes)
        srcIds == Take(classIds, idxes)
        a1 == IF In(c, hflip_cls)
              THEN [bboxes |-> NpAppend(aug.bboxes, FlipAxis1(src)),
                    classIds |-> NpAppend(aug.classIds, srcIds)]
              ELSE aug
        a2 == IF In(c, vflip_cls)
              THEN [bboxes |-> NpAppend(a1.bboxes, FlipAxis2(src)),
                    classIds |-> NpAppend(a1.classIds, srcIds)]
              ELSE a1
        a3 == IF In(c, hvflip_cls)
              THEN [bboxes |-> NpAppend(a2.bboxes, FlipAxis2(FlipAxis1(src))),
                    classIds |-> NpAppend(a2.classIds, srcIds)]
              ELSE a2
        a4 == IF In(c, ChangedFrom)
              THEN [bboxes |-> NpAppend(a3.bboxes, FlipAxis1(src)),
                    classIds |-> NpAppend(a3.classIds, DstIds(ChangedTo(c), srcIds))]
              ELSE a3
    IN  a4

\* for c in range(n_classes)
RECURSIVE AugLoop(_, _, _, _, _)
AugLoop(c, n, bboxes, classIds, aug) ==
    IF c >= n THEN aug
    ELSE LET next == AugClass(c, bboxes, classIds, aug)
         IN  \* the test is always true: it has TLC compute this turn's arrays
             \* before the next turn starts
             IF Len(next.classIds.v) >= 0
             THEN AugLoop(c + 1, n, bboxes, classIds, next)
             ELSE next

\* lines 125-127: the two empty arrays the loop appends to
NoAug == [bboxes |-> Array("uint8", <<>>), classIds |-> Array("int32", <<>>)]

\* Mutant: the copies are appended to the arrays the loop reads, so that a
\* second pass flips them again.
AugArraysRepeated(bboxes, classIds, n) ==
    LET aug == AugLoop(0, n, bboxes, classIds, NoAug)
        once == [bboxes |-> NpAppend(bboxes, aug.bboxes),
                 classIds |-> NpAppend(classIds, aug.classIds)]
        again == AugLoop(0, n, once.bboxes, once.classIds, NoAug)
    IN  [bboxes |-> NpAppend(once.bboxes, again.bboxes),
         classIds |-> NpAppend(once.classIds, again.classIds)]

\* lines 151-186: the two arrays aug_by_flip returns, from the two it is
\* given
AugArrays(bboxes, classIds, n) ==
    LET aug == AugLoop(0, n, bboxes, classIds, NoAug)
    IN  [bboxes |-> NpAppend(bboxes, aug.bboxes),
         classIds |-> NpAppend(classIds, aug.classIds)]

\* aug_by_flip(bboxes, classIds): np.append makes new arrays; the two
\* arguments are read only
aug_by_flip(h, bboxes, classIds, n) ==
    LET r == AugArrays(h[bboxes], h[classIds], n)
    IN  [heap |-> h \o <<r.bboxes, r.classIds>>,
         ret |-> <<Len(h) + 1, Len(h) + 2>>]

(***************************************************************************)
(* preproc                                                                 *)
(***************************************************************************)
\* cvRound: to the nearest integer, a tie to the even one
RoundHalfEven(num, den) ==
    LET q == num \div den
        r == num % den
    IN  IF 2 * r < den THEN q
        ELSE IF 2 * r > den THEN q + 1
        ELSE IF q % 2 = 0 THEN q ELSE q + 1

Positions(img) == {<<r, c>> : r \in 1..Len(img), c \in 1..Len(img[1])}

\* cv2.equalizeHist on the luma plane: a pixel v becomes
\* round(255 * (cdf(v) - cdf_min) / (total - cdf_min)); an image of a single
\* value is left as it is
EqualizeHist(img) ==
    LET pos == Positions(img)
        total == Cardinality(pos)
        low == CHOOSE v \in {img[p[1]][p[2]] : p \in pos} :
                  \A p \in pos : v <= img[p[1]][p[2]]
        cdf(v) == Cardinality({p \in pos : img[p[1]][p[2]] <= v})
    IN  IF cdf(low) = total THEN img
        ELSE [r \in 1..Len(img) |-> [c \in 1..Len(img[r]) |->
                 RoundHalfEven(255 * (cdf(img[r][c]) - cdf(low)), total - cdf(low))]]

\* (eq_img / 255.).astype(np.float32): the pixel v becomes the fraction
\* v/255, written <<v, 255>>
Scale(img) == [r \in 1..Len(img) |-> [c \in 1..Len(img[r]) |-> <<img[r][c], 255>>]]

\* the array preproc fills, made by np.zeros: entry i is the equalized,
\* scaled image i
PreprocArray(bboxes) ==
    Array("float64", [i \in 1..Len(bboxes.v) |-> Scale(EqualizeHist(bboxes.v[i]))])

\* Mutant: the equalized images are written into the array given.
preproc_in_place(h, bboxes, classIds) ==
    [heap |-> [h EXCEPT ![bboxes] = PreprocArray(h[bboxes])],
     ret |-> <<bboxes, classIds>>]

\* np.zeros(bboxes.shape) is a new array, and it is the one written to;
\* classIds is returned as it came
preproc(h, bboxes, classIds) ==
    [heap |-> Append(h, PreprocArray(h[bboxes])),
     ret |-> <<Len(h) + 1, classIds>>]

(***************************************************************************)
(* The one-hot encoding of main                                            *)
(***************************************************************************)
\* np.eye(n)[classIds.reshape(len(classIds))] raises IndexError when the
\* index array is not of an integer type (numpy 1.12 and later), and when
\* an index is not below n (class ids are not negative here)
OneHotRaises(classIds, n) ==
    \/ ~IsIntegerDtype(classIds.dtype)
    \/ \E i \in 1..Len(classIds.v) : classIds.v[i] >= n

\* row i of the result is row classIds[i] of the identity matrix; rows and
\* columns are numbered from 0 in numpy and from 1 here
OneHot(classIds, n) ==
    Array("float64",
          [i \in 1..Len(classIds.v) |-> [j \in 1..n |-> IF j - 1 = classIds.v[i] THEN 1 ELSE 0]])

(***************************************************************************)
(* save_as_pickle                                                          *)
(***************************************************************************)
\* np.random.permutation(k): any arrangement of 0..k-1 (here of 1..k)
permutation(k) == {p \in [1..k -> 1..k] : \A i, j \in 1..k : i # j => p[i] # p[j]}

\* Mutant: the labels indexed by another arrangement than the images.
ShuffledApart(bboxes, classIds, shuffled_idx) ==
    [bboxes |-> Take(bboxes, shuffled_idx), classIds |-> Take(classIds, Reverse(shuffled_idx))]

\* np.array(bboxes)[shuffled_idx] and np.array(classIds)[shuffled_idx]
Shuffled(bboxes, classIds, shuffled_idx) ==
    [bboxes |-> Take(bboxes, shuffled_idx), classIds |-> Take(classIds, shuffled_idx)]

\* Mutant: the test keys only for 'test'.
SaveDictUnlessTest(train_or_test, bboxes, classIds, shuffle, shuffled_idx) ==
    LET s == IF shuffle THEN Shuffled(bboxes, classIds, shuffled_idx)
             ELSE [bboxes |-> bboxes, classIds |-> classIds]
    IN  IF train_or_test # "test"
        THEN [train_bboxes |-> s.bboxes, train_classIds |-> s.classIds]
        ELSE [test_bboxes |-> s.bboxes, test_classIds |-> s.classIds]

\* the dictionary handed to joblib.dump; shuffled_idx is read only when
\* shuffle is set
SaveDict(train_or_test, bboxes, classIds, shuffle, shuffled_idx) ==
    LET s == IF shuffle THEN Shuffled(bboxes, classIds, shuffled_idx)
             ELSE [bboxes |-> bboxes, classIds |-> classIds]
    IN  IF train_or_test = "train"
        THEN [train_bboxes |-> s.bboxes, train_classIds |-> s.classIds]
        ELSE [test_bboxes |-> s.bboxes, test_classIds |-> s.classIds]

\* save_as_pickle: np.array(...) copies its argument, the copies go into the
\* dictionary, and the dictionary goes to the file; nothing is returned
save_as_pickle(h, d, train_or_test, bboxes, classIds, pkl_fname, shuffle, shuffled_idx) ==
    [heap |-> h,
     dumped |-> Append(d, [pkl_fname |-> pkl_fname,
                           save |-> SaveDict(train_or_test, h[bboxes], h[classIds],
                                             shuffle, shuffled_idx)])]

(***************************************************************************)
(* The annotation files: gt_csv_getline and parse_gt_csv                   *)
(***************************************************************************)
\* The image files of a directory, and the picture in each: one pixel more
\* than a cropped region each way, every pixel different.
ImageFiles == <<"a.ppm", "b.ppm">>
Dirs == <<"train/0", "train/1", "test">>
IndexOf(x, seq) == CHOOSE i \in 1..Len(seq) : seq[i] = x

\* cv2.imread(img_file_path)
ImRead(path) ==
    LET base == ((IndexOf(path.dir, Dirs) - 1) * Len(ImageFiles)
                  + (IndexOf(path.name, ImageFiles) - 1))
                * (IMG_HEIGHT + 1) * (IMG_WIDTH + 1)
    IN  [r \in 1..(IMG_HEIGHT + 1) |-> [c \in 1..(IMG_WIDTH + 1) |->
            base + (r - 1) * (IMG_WIDTH + 1) + c]]

\* img[Y1:Y2, X1:X2]: rows Y1..Y2-1 and columns X1..X2-1, numbered from 0
Crop(img, bbox) ==
    [r \in 1..(bbox.Y2 - bbox.Y1) |-> [c \in 1..(bbox.X2 - bbox.X1) |->
        img[bbox.Y1 + r][bbox.X1 + c]]]

\* cv2.resize(gt_bbox, (IMG_WIDTH, IMG_HEIGHT)), with the nearest source
\* pixel standing for the interpolation; a region of the target size is
\* returned as it is
Resize(img) ==
    [r \in 1..IMG_HEIGHT |-> [c \in 1..IMG_WIDTH |->
        img[((r - 1) * Len(img)) \div IMG_HEIGHT + 1]
           [((c - 1) * Len(img[1])) \div IMG_WIDTH + 1]]]

\* Mutant: read_csv with skiprows=1, the first row taken for the header.
FileLinesSkipRow(files, gt_csv) ==
    [i \in 1..(Len(files[gt_csv]) - 1) |->
        [img_file_path |-> [dir |-> gt_csv.root, name |-> files[gt_csv][i + 1].Filename],
         bbox |-> files[gt_csv][i + 1].Roi,
         classId |-> files[gt_csv][i + 1].ClassId]]

\* lines 38-53: the rows of one annotation file, as gt_csv_getline yields them
FileLines(files, gt_csv) ==
    [i \in 1..Len(files[gt_csv]) |->
        [img_file_path |-> [dir |-> gt_csv.root, name |-> files[gt_csv][i].Filename],
         bbox |-> files[gt_csv][i].Roi,
         classId |-> files[gt_csv][i].ClassId]]

\* gt_csv_getline(gt_csvs): every row of every file, files in list order
RECURSIVE gt_csv_getline(_, _)
gt_csv_getline(files, gt_csvs) ==
    IF gt_csvs = <<>> THEN <<>>
    ELSE FileLines(files, Head(gt_csvs)) \o gt_csv_getline(files, Tail(gt_csvs))

\* lines 73-81: the region of one line, cropped and resized
GtBbox(line) == Resize(Crop(ImRead(line.img_file_path), line.bbox))

ZeroImage == [r \in 1..IMG_HEIGHT |-> [c \in 1..IMG_WIDTH |-> 0]]

\* parse_gt_csv: two arrays of data_size zero entries, entry i overwritten
\* by line i; the line numbered data_size (from 0), if there is one, has no
\* entry to go to, and bboxes[i] = ... raises IndexError
parse_gt_csv(h, files, gt_csvs, data_size) ==
    LET lines == gt_csv_getline(files, gt_csvs)
        bboxes == Array("uint8", [i \in 1..data_size |->
                      IF i <= Len(lines) THEN GtBbox(lines[i]) ELSE ZeroImage])
        classIds == Array("int32", [i \in 1..data_size |->
                      IF i <= Len(lines) THEN lines[i].classId ELSE 0])
    IN  [raised |-> Len(lines) > data_size,
         heap |-> h \o <<bboxes, classIds>>,
         ret |-> <<Len(h) + 1, Len(h) + 2>>]

(***************************************************************************)
(* SpecCall: one call of one function on arguments drawn from bounded sets *)
(***************************************************************************)
\* The arrays of length k over a set of entries
Arrays(S, k) == [1..k -> S]

\* Images with repeated pixel values, besides Img(1) and Img(2)
FlatImage == [r \in 1..IMG_HEIGHT |-> [c \in 1..IMG_WIDTH |-> 7]]
TwoTone == [r \in 1..IMG_HEIGHT |-> [c \in 1..IMG_WIDTH |-> IF r = 1 THEN 10 ELSE 200]]
TestImages == {Img(1), Img(2), FlatImage, TwoTone}

\* The annotation files and their possible rows
CsvName == <<"G", "T", ".", "c", "s", "v">>
CsvPaths == {[root |-> Dirs[i], f |-> CsvName] : i \in 1..Len(Dirs)}
CsvOf(dir) == [root |-> dir, f |-> CsvName]
WholeRoi == [X1 |-> 0, Y1 |-> 0, X2 |-> IMG_WIDTH + 1, Y2 |-> IMG_HEIGHT + 1]
CornerRoi == [X1 |-> 1, Y1 |-> 1, X2 |-> IMG_WIDTH + 1, Y2 |-> IMG_HEIGHT + 1]
Rows(names, rois, ids) == [Filename : names, Roi : rois, ClassId : ids]

NoLocals == <<>>
NoCommon == <<>>

\* The classes of the samples in an array of more than one sample: every
\* class listed in a flip table, and the first and the last class of GTSRB,
\* which no table lists.
SampledClasses == {0, 42} \cup hflip_cls \cup vflip_cls \cup hvflip_cls \cup ChangedFrom

\* The labels of k samples when model.NUM_CLASSES is n: of one sample, any
\* class below n.
LabelsOf(n, k) ==
    IF k <= 1 THEN 0..(n - 1)
    ELSE IF n \in NumClassesValues THEN SampledClasses \cap 0..(n - 1)
    ELSE {}

InitCallAug ==
    /\ n_classes \in 1..MaxNumClasses
    /\ \E k \in 0..MaxLen :
       \E ids \in Arrays(LabelsOf(n_classes, k), k) :
          heap = << Array("float64", [i \in 1..k |-> Img(i)]), Array("int32", ids) >>
    /\ call = [fn |-> "aug_by_flip", bboxes |-> 1, classIds |-> 2, ret |-> <<>>]
    /\ fs = [p \in CsvPaths |-> <<>>]

InitCallPreproc ==
    /\ n_classes = 2
    /\ \E k \in 0..MaxLen : \E b \in Arrays(TestImages, k) : \E ids \in Arrays(0..1, k) :
          heap = <<Array("uint8", b), Array("int32", ids)>>
    /\ call = [fn |-> "preproc", bboxes |-> 1, classIds |-> 2, ret |-> <<>>]
    /\ fs = [p \in CsvPaths |-> <<>>]

InitCallSave ==
    /\ n_classes = 2
    /\ \E k \in 0..MaxLen : \E b \in Arrays({Img(1), Img(2)}, k) : \E ids \in Arrays(0..1, k) :
          heap = <<Array("float64", b), Array("float64", ids)>>
    /\ \E t \in {"train", "test", "valid", ""} : \E sh \in BOOLEAN :
          call = [fn |-> "save_as_pickle", train_or_test |-> t, bboxes |-> 1,
                  classIds |-> 2, pkl_fname |-> "out.pkl", shuffle |-> sh, ret |-> <<>>]
    /\ fs = [p \in CsvPaths |-> <<>>]

InitCallParse ==
    /\ n_classes = 2
    /\ heap = <<>>
    /\ \E r1, r2 \in UNION {Arrays(Rows({"a.ppm", "b.ppm"}, {WholeRoi, CornerRoi}, 0..1), k) :
                               k \in 0..MaxLen} :
          /\ Len(r1) + Len(r2) <= MaxLen
          /\ fs = [p \in CsvPaths |-> IF p = CsvOf("train/0") THEN r1
                                      ELSE IF p = CsvOf("train/1") THEN r2 ELSE <<>>]
    /\ \E l \in {<<>>, <<CsvOf("train/0")>>, <<CsvOf("train/0"), CsvOf("train/1")>>,
                 <<CsvOf("train/1"), CsvOf("train/0")>>} :
       \E size \in 0..(MaxLen + 1) :
          call = [fn |-> "parse_gt_csv", gt_csvs |-> l, data_size |-> size, ret |-> <<>>]

InitCall ==
    /\ pc = "call"
    /\ locals = NoLocals /\ common = NoCommon /\ dumped = <<>> /\ trace = <<>>
    /\ \/ InitCallParse
       \/ InitCallPreproc
       \/ InitCallAug
       \/ InitCallSave

CallParseGtCsv ==
    /\ pc = "call" /\ call.fn = "parse_gt_csv"
    /\ LET r == parse_gt_csv(heap, fs, call.gt_csvs, call.data_size)
       IN  /\ heap' = r.heap
           /\ call' = [call EXCEPT !.ret = IF r.raised THEN <<>> ELSE r.ret]
           /\ pc' = IF r.raised THEN "raised" ELSE "returned"
    /\ UNCHANGED <<n_classes, fs, locals, common, dumped, trace>>

CallPreproc ==
    /\ pc = "call" /\ call.fn = "preproc"
    /\ LET r == preproc(heap, call.bboxes, call.classIds)
       IN  /\ heap' = r.heap
           /\ call' = [call EXCEPT !.ret = r.ret]
    /\ pc' = "returned"
    /\ UNCHANGED <<n_classes, fs, locals, common, dumped, trace>>

CallAugByFlip ==
    /\ pc = "call" /\ call.fn = "aug_by_flip"
    /\ LET r == aug_by_flip(heap, call.bboxes, call.classIds, n_classes)
       IN  /\ heap' = r.heap
           /\ call' = [call EXCEPT !.ret = r.ret]
    /\ pc' = "returned"
    /\ UNCHANGED <<n_classes, fs, locals, common, dumped, trace>>

CallSaveAsPickle ==
    /\ pc = "call" /\ call.fn = "save_as_pickle"
    /\ \E shuffled_idx \in (IF call.shuffle
                            THEN permutation(Len(heap[call.bboxes].v)) ELSE {<<>>}) :
          LET r == save_as_pickle(heap, dumped, call.train_or_test, call.bboxes,
                                  call.classIds, call.pkl_fname, call.shuffle, shuffled_idx)
          IN  /\ heap' = r.heap
              /\ dumped' = r.dumped
    /\ pc' = "returned"
    /\ UNCHANGED <<n_classes, fs, locals, call, common, trace>>

NextCall ==
    \/ CallParseGtCsv
    \/ CallPreproc
    \/ CallAugByFlip
    \/ CallSaveAsPickle

SpecCall == InitCall /\ [][NextCall]_vars

(***************************************************************************)
(* get_gt_csvs                                                             *)
(***************************************************************************)
\* File names are sequences of characters, for the search of r'.csv'.
PpmA == <<"a", ".", "p", "p", "m">>
PpmB == <<"b", ".", "p", "p", "m">>
ReadmeName == <<"R", "e", "a", "d", "m", "e", ".", "t", "x", "t">>

\* common.TRAIN_ROOT_DIR and common.TEST_ROOT_DIR (outside src/)
TRAIN_ROOT_DIR == "train"
TEST_ROOT_DIR == "test"

\* os.walk(root_dir): the directories below root_dir, each with its files
Walk(root_dir) ==
    IF root_dir = TRAIN_ROOT_DIR
    THEN << [root |-> "train", files |-> <<ReadmeName>>],
            [root |-> "train/0", files |-> <<CsvName, PpmA, PpmB>>],
            [root |-> "train/1", files |-> <<PpmA, CsvName>>] >>
    ELSE << [root |-> "test", files |-> <<PpmA, PpmB, CsvName>>] >>

\* re.search(r'.csv', f): any character but a newline, then "csv", anywhere
ReSearchCsv(f) ==
    \E i \in 1..(Len(f) - 3) :
        f[i] # "\n" /\ f[i + 1] = "c" /\ f[i + 2] = "s" /\ f[i + 3] = "v"

\* the list comprehension, over the directories entries[k..]
RECURSIVE JoinedCsvs(_, _)
JoinedCsvs(entries, k) ==
    IF k > Len(entries) THEN <<>>
    ELSE LET matching == SelectSeq(entries[k].files, ReSearchCsv)
         IN  [i \in 1..Len(matching) |-> [root |-> entries[k].root, f |-> matching[i]]]
             \o JoinedCsvs(entries, k + 1)

get_gt_csvs(root_dir) == JoinedCsvs(Walk(root_dir), 1)

(***************************************************************************)
(* Spec: main                                                              *)
(***************************************************************************)
\* The values of model.NUM_CLASSES main is run with: GTSRB's 43, and 2.
MainNumClasses == {2, 43}

\* The rows of main's annotation files: of a class no table lists, of a
\* class flipped under its own label and, when NUM_CLASSES has it, of a
\* class of a class-changing pair.
MainRows(n) == Rows({"a.ppm"}, {CornerRoi}, {0, 1, 19} \cap 0..(n - 1))

Init ==
    /\ pc = "get_train_csvs"
    /\ call = [fn |-> "main"]
    /\ n_classes \in MainNumClasses
    /\ \E r1, r2 \in UNION {Arrays(MainRows(n_classes), k) : k \in 0..MaxLen} :
       \E r3 \in Arrays(MainRows(n_classes), 0) \cup Arrays(MainRows(n_classes), 1) :
          /\ Len(r1) + Len(r2) <= MaxLen
          /\ fs = [p \in CsvPaths |-> IF p = CsvOf("train/0") THEN r1
                                      ELSE IF p = CsvOf("train/1") THEN r2 ELSE r3]
    /\ \E ntrain \in 0..MaxLen : \E ntest \in 0..1 :
          common = [TRAIN_SIZE |-> ntrain, TEST_SIZE |-> ntest,
                    TRAIN_PKL_FILENAME |-> "train.pkl", TEST_PKL_FILENAME |-> "test.pkl"]
    /\ heap = <<>>
    /\ locals = [train_gt_csvs |-> <<>>, test_gt_csvs |-> <<>>,
                 train_bboxes |-> 0, train_classIds |-> 0,
                 test_bboxes |-> 0, test_classIds |-> 0,
                 train_one_hot_classIds |-> 0, test_one_hot_classIds |-> 0]
    /\ dumped = <<>>
    /\ trace = <<>>

Ran(stage, data) == trace' = Append(trace, [stage |-> stage, data |-> data])

\* line 190
MainGetTrainCsvs ==
    /\ pc = "get_train_csvs"
    /\ locals' = [locals EXCEPT !.train_gt_csvs = get_gt_csvs(TRAIN_ROOT_DIR)]
    /\ Ran("get_gt_csvs", "train")
    /\ pc' = "get_test_csvs"
    /\ UNCHANGED <<n_classes, fs, heap, call, common, dumped>>

\* line 191
MainGetTestCsvs ==
    /\ pc = "get_test_csvs"
    /\ locals' = [locals EXCEPT !.test_gt_csvs = get_gt_csvs(TEST_ROOT_DIR)]
    /\ Ran("get_gt_csvs", "test")
    /\ pc' = "parse_train"
    /\ UNCHANGED <<n_classes, fs, heap, call, common, dumped>>

\* lines 193-194; an exception ends main
MainParseTrain ==
    /\ pc = "parse_train"
    /\ LET r == parse_gt_csv(heap, fs, locals.train_gt_csvs, common.TRAIN_SIZE)
       IN  /\ heap' = r.heap
           /\ IF r.raised
              THEN pc' = "raised" /\ UNCHANGED <<locals, trace>>
              ELSE /\ pc' = "parse_test"
                   /\ locals' = [locals EXCEPT !.train_bboxes = r.ret[1],
                                               !.train_classIds = r.ret[2]]
                   /\ Ran("parse_gt_csv", "train")
    /\ UNCHANGED <<n_classes, fs, call, common, dumped>>

\* line 195
MainParseTest ==
    /\ pc = "parse_test"
    /\ LET r == parse_gt_csv(heap, fs, locals.test_gt_csvs, common.TEST_SIZE)
       IN  /\ heap' = r.heap
           /\ IF r.raised
              THEN pc' = "raised" /\ UNCHANGED <<locals, trace>>
              ELSE /\ pc' = "preproc"
                   /\ locals' = [locals EXCEPT !.test_bboxes = r.ret[1],
                                               !.test_classIds = r.ret[2]]
                   /\ Ran("parse_gt_csv", "test")
    /\ UNCHANGED <<n_classes, fs, call, common, dumped>>

\* Mutant: main goes on to the augmentation without preprocessing.
MainPreprocSkipped ==
    /\ pc = "preproc"
    /\ pc' = "aug_by_flip"
    /\ UNCHANGED <<n_classes, fs, heap, locals, call, common, dumped, trace>>

\* line 202
MainPreproc ==
    /\ pc = "preproc"
    /\ LET r == preproc(heap, locals.train_bboxes, locals.train_classIds)
       IN  /\ heap' = r.heap
           /\ locals' = [locals EXCEPT !.train_bboxes = r.ret[1],
                                       !.train_classIds = r.ret[2]]
    /\ Ran("preproc", "train")
    /\ pc' = "aug_by_flip"
    /\ UNCHANGED <<n_classes, fs, call, common, dumped>>

\* line 207
MainAugByFlip ==
    /\ pc = "aug_by_flip"
    /\ LET r == aug_by_flip(heap, locals.train_bboxes, locals.train_classIds, n_classes)
       IN  /\ heap' = r.heap
           /\ locals' = [locals EXCEPT !.train_bboxes = r.ret[1],
                                       !.train_classIds = r.ret[2]]
    /\ Ran("aug_by_flip", "train")
    /\ pc' = "one_hot_train"
    /\ UNCHANGED <<n_classes, fs, call, common, dumped>>

\* lines 212-213
MainOneHotTrain ==
    /\ pc = "one_hot_train"
    /\ IF OneHotRaises(heap[locals.train_classIds], n_classes)
       THEN pc' = "raised" /\ UNCHANGED <<heap, locals, trace>>
       ELSE /\ heap' = Append(heap, OneHot(heap[locals.train_classIds], n_classes))
            /\ locals' = [locals EXCEPT !.train_one_hot_classIds = Len(heap) + 1]
            /\ Ran("one_hot", "train")
            /\ pc' = "one_hot_test"
    /\ UNCHANGED <<n_classes, fs, call, common, dumped>>

\* lines 214-215
MainOneHotTest ==
    /\ pc = "one_hot_test"
    /\ IF OneHotRaises(heap[locals.test_classIds], n_classes)
       THEN pc' = "raised" /\ UNCHANGED <<heap, locals, trace>>
       ELSE /\ heap' = Append(heap, OneHot(heap[locals.test_classIds], n_classes))
            /\ locals' = [locals EXCEPT !.test_one_hot_classIds = Len(heap) + 1]
            /\ Ran("one_hot", "test")
            /\ pc' = "save_train"
    /\ UNCHANGED <<n_classes, fs, call, common, dumped>>

\* lines 218-223
MainSaveTrain ==
    /\ pc = "save_train"
    /\ \E shuffled_idx \in permutation(Len(heap[locals.train_bboxes].v)) :
          LET r == save_as_pickle(heap, dumped, "train", locals.train_bboxes,
                                  locals.train_one_hot_classIds,
                                  common.TRAIN_PKL_FILENAME, TRUE, shuffled_idx)
          IN  heap' = r.heap /\ dumped' = r.dumped
    /\ Ran("save_as_pickle", "train")
    /\ pc' = "save_test"
    /\ UNCHANGED <<n_classes, fs, locals, call, common>>

\* lines 224-225
MainSaveTest ==
    /\ pc = "save_test"
    /\ LET r == save_as_pickle(heap, dumped, "test", locals.test_bboxes,
                               locals.test_one_hot_classIds,
                               common.TEST_PKL_FILENAME, FALSE, <<>>)
       IN  heap' = r.heap /\ dumped' = r.dumped
    /\ Ran("save_as_pickle", "test")
    /\ pc' = "done"
    /\ UNCHANGED <<n_classes, fs, locals, call, common>>

Next ==
    \/ MainGetTrainCsvs
    \/ MainGetTestCsvs
    \/ MainParseTrain
    \/ MainParseTest
    \/ MainPreproc
    \/ MainAugByFlip
    \/ MainOneHotTrain
    \/ MainOneHotTest
    \/ MainSaveTrain
    \/ MainSaveTest

Spec == Init /\ [][Next]_vars

(***************************************************************************)
(* Properties of main (Spec).                                              *)
(***************************************************************************)
\* the stages the data set has gone through, in the order main ran them
StagesOf(data) ==
    LET IsOf(e) == e.data = data
        own == SelectSeq(trace, IsOf)
    IN  [i \in 1..Len(own) |-> own[i].stage]

IsPrefix(s, t) == Len(s) <= Len(t) /\ \A i \in 1..Len(s) : s[i] = t[i]

\* the data set has been written to its file
Serialized(data) ==
    \E i \in 1..Len(dumped) :
        dumped[i].pkl_fname = (IF data = "train" THEN common.TRAIN_PKL_FILENAME
                               ELSE common.TEST_PKL_FILENAME)

SixStages ==
    <<"get_gt_csvs", "parse_gt_csv", "preproc", "aug_by_flip", "one_hot", "save_as_pickle">>

\* C1 as claimed: each data set main has written, the train set and the
\* test set, has gone through the six stages, in order, none skipped.
C1_EveryDatasetThroughSixStages ==
    \A data \in {"train", "test"} : Serialized(data) => StagesOf(data) = SixStages

\* C1 amended: main is one linear pipeline; the train set it writes has gone
\* through the six stages in order, none skipped, and the test set it
\* writes through get_gt_csvs, parse_gt_csv, the one-hot encoding and
\* save_as_pickle, in this order: it is stored as parsed, neither
\* preprocessed nor augmented.
C1_TrainThroughSixTestThroughFour ==
    LET four == <<"get_gt_csvs", "parse_gt_csv", "one_hot", "save_as_pickle">>
    IN  /\ IsPrefix(StagesOf("train"), SixStages)
        /\ IsPrefix(StagesOf("test"), four)
        /\ Serialized("train") => StagesOf("train") = SixStages
        /\ Serialized("test") =>
              /\ StagesOf("test") = four
              /\ LET lines == gt_csv_getline(fs, get_gt_csvs(TEST_ROOT_DIR))
                     stored == dumped[Len(dumped)].save.test_bboxes.v
                 IN  /\ Len(stored) = common.TEST_SIZE
                     /\ \A i \in 1..Len(lines) : stored[i] = GtBbox(lines[i])
        /\ pc = "done" <=> Serialized("test")

\* main has written both data sets, the train set with a flipped copy
C1_Witness ==
    /\ pc = "done"
    /\ Serialized("train") /\ Serialized("test")
    /\ Len(dumped[1].save.train_bboxes.v) = 2
    /\ Len(dumped[2].save.test_bboxes.v) = 1
    /\ Len(gt_csv_getline(fs, get_gt_csvs(TRAIN_ROOT_DIR))) = 1

\* main has run the line that encodes the labels of the data set (it
\* stands at a later line, or the line raised)
Encoded(data) ==
    IF data = "train"
    THEN /\ Len(StagesOf("train")) >= 4
         /\ pc # "one_hot_train"
    ELSE /\ Len(StagesOf("train")) >= 5
         /\ pc # "one_hot_test"

\* C6: the encoding in main is defined for every label array whose class
\* ids are all below NUM_CLASSES, and gives one row per label, in order, of
\* NUM_CLASSES entries, all 0 but a single 1, which stands in the column
\* of the label (columns numbered from 0): the place of the 1 gives the
\* label back.
C6_OneHotRows ==
    \A data \in {"train", "test"} :
        LET ids == IF data = "train" THEN heap[locals.train_classIds].v
                   ELSE heap[locals.test_classIds].v
            out == IF data = "train" THEN locals.train_one_hot_classIds
                   ELSE locals.test_one_hot_classIds
        IN  (Encoded(data) /\ \A i \in 1..Len(ids) : ids[i] \in 0..(n_classes - 1))
            => /\ out # 0
               /\ LET m == heap[out].v
                  IN  /\ Len(m) = Len(ids)
                      /\ \A i \in 1..Len(m) :
                            /\ Len(m[i]) = n_classes
                            /\ \A j \in 1..n_classes : m[i][j] \in {0, 1}
                            /\ Cardinality({j \in 1..n_classes : m[i][j] = 1}) = 1
                            /\ m[i][ids[i] + 1] = 1

(***************************************************************************)
(* Properties of aug_by_flip (SpecCall).                                   *)
(***************************************************************************)
AugReturned == pc = "returned" /\ call.fn = "aug_by_flip"
NSamples == Len(heap[call.bboxes].v)

\* An image flipped horizontally: every row read from its other end, the
\* rows in place.  Flipped vertically: the rows in the opposite order, each
\* row as it was.
MirrorLeftRight(img) == [r \in 1..Len(img) |-> Reverse(img[r])]
MirrorUpDown(img) == Reverse(img)
MirrorBoth(img) == MirrorUpDown(MirrorLeftRight(img))

\* The entries appended to the output that show input sample i flipped one
\* way or another.  The images given to aug_by_flip have no pixel value in
\* common and none twice, so an entry is a flip of one sample at most.
CopiesOf(i) ==
    LET img == heap[call.bboxes].v[i]
    IN  {j \in (NSamples + 1)..Len(heap[call.ret[1]].v) :
            heap[call.ret[1]].v[j] \in {MirrorLeftRight(img), MirrorUpDown(img), MirrorBoth(img)}}

HasCopy(i, img, id) ==
    \E j \in (NSamples + 1)..Len(heap[call.ret[1]].v) :
        heap[call.ret[1]].v[j] = img /\ heap[call.ret[2]].v[j] = id

\* C2: every sample of a class of the horizontal-flip set has a copy in the
\* output that is the image mirrored left to right (columns reversed, rows
\* kept) under the same class id; every sample of a class of the
\* vertical-flip set has a copy mirrored upside down (rows reversed, columns
\* kept); every sample of class 32 or 40 has a copy with both reversed.
C2_FlipAlongNamedAxis ==
    AugReturned =>
        \A i \in 1..NSamples :
            LET img == heap[call.bboxes].v[i]
                id == heap[call.classIds].v[i]
            IN  /\ id \in {11, 12, 13, 15, 17, 18, 22, 26, 30, 35}
                      => HasCopy(i, MirrorLeftRight(img), id)
                /\ id \in {1, 5, 12, 15, 17} => HasCopy(i, MirrorUpDown(img), id)
                /\ id \in {32, 40} => HasCopy(i, MirrorBoth(img), id)

\* The pairing 19<->20, 33<->34, 36<->37, 38<->39
PairedClasses == {19, 20, 33, 34, 36, 37, 38, 39}
Partner(c) == IF c \in {19, 33, 36, 38} THEN c + 1 ELSE c - 1

\* C3: every sample of a paired class has exactly one flipped copy in the
\* output, labelled with the partner class and never with its own; the
\* class-changing table is that pairing, it is an involution, and no class
\* of it is in a label-preserving table.
C3_ClassChangingFlip ==
    /\ ChangedFrom = PairedClasses
    /\ \A c \in PairedClasses :
          /\ ChangedTo(c) = Partner(c)
          /\ ChangedTo(ChangedTo(c)) = c
          /\ c \notin hflip_cls \cup vflip_cls \cup hvflip_cls
    /\ AugReturned =>
          \A i \in 1..NSamples :
              heap[call.classIds].v[i] \in PairedClasses =>
                  /\ Cardinality(CopiesOf(i)) = 1
                  /\ \A j \in CopiesOf(i) :
                        /\ heap[call.ret[2]].v[j] = Partner(heap[call.classIds].v[i])
                        /\ heap[call.ret[2]].v[j] # heap[call.classIds].v[i]

C3_Witness ==
    /\ AugReturned
    /\ \E i \in 1..NSamples :
          /\ heap[call.classIds].v[i] = 19
          /\ \E j \in CopiesOf(i) : heap[call.ret[2]].v[j] = 20

\* k(c): how many of the four tables list class c
FlipTables == <<hflip_cls, vflip_cls, hvflip_cls, ChangedFrom>>
TablesListing(c) == {t \in 1..Len(FlipTables) : c \in FlipTables[t]}

\* C5: the two arrays returned have the same length, the number of samples
\* plus, for every sample, the number of tables listing its class; the
\* first entries are the samples and their labels in their order; every
\* other entry is a flip of a sample (never of a copy), and a sample has as
\* many copies as tables list its class: two at most, two for the classes
\* 12, 15 and 17, none for a class in no table.
C5_SinglePassLength ==
    AugReturned =>
        LET outB == heap[call.ret[1]].v
            outC == heap[call.ret[2]].v
            ids == heap[call.classIds].v
        IN  /\ \A i \in 1..NSamples : ids[i] \in 0..(n_classes - 1)
            /\ Len(outB) = Len(outC)
            /\ Len(outB) = NSamples
                  + Cardinality({<<i, t>> \in (1..NSamples) \X (1..Len(FlipTables)) :
                                    ids[i] \in FlipTables[t]})
            /\ \A i \in 1..NSamples : outB[i] = heap[call.bboxes].v[i] /\ outC[i] = ids[i]
            /\ \A j \in (NSamples + 1)..Len(outB) : \E i \in 1..NSamples : j \in CopiesOf(i)
            /\ \A i \in 1..NSamples :
                  /\ Cardinality(CopiesOf(i)) = Cardinality(TablesListing(ids[i]))
                  /\ Cardinality(CopiesOf(i)) <= 2
                  /\ ids[i] \in {12, 15, 17} => Cardinality(CopiesOf(i)) = 2
                  /\ TablesListing(ids[i]) = {} => CopiesOf(i) = {}

C5_Witness ==
    /\ AugReturned
    /\ NSamples >= 2
    /\ heap[call.classIds].v[1] = 12
    /\ heap[call.classIds].v[2] = 0
    /\ Len(heap[call.ret[1]].v) = NSamples + 2

\* C10: whatever NUM_CLASSES is, every label aug_by_flip returns for
\* labels below NUM_CLASSES is a class below NUM_CLASSES, and so the label
\* array returned is one the one-hot encoding of main is defined for: an
\* array of integers, each the number of a row of the identity matrix.
C10_LabelsInRange ==
    AugReturned =>
        /\ \A j \in 1..Len(heap[call.ret[2]].v) :
              heap[call.ret[2]].v[j] \in 0..(n_classes - 1)
        /\ heap[call.ret[2]].dtype \in {"int32", "int64"}

(***************************************************************************)
(* Properties of the other functions (SpecCall).                           *)
(***************************************************************************)
SameShape(a, b) ==
    /\ Len(a) = Len(b)
    /\ \A i \in 1..Len(a) :
          /\ Len(a[i]) = Len(b[i])
          /\ \A r \in 1..Len(a[i]) : Len(a[i][r]) = Len(b[i][r])

\* C4: a call of preproc, aug_by_flip or save_as_pickle (shuffling or not)
\* leaves the two arrays it is given as they were, entry by entry; preproc
\* returns the very label array it was given, and an image array of the
\* shape of the one it was given.
C4_ArgumentsUnchanged ==
    [][(pc = "call" /\ call.fn \in {"preproc", "aug_by_flip", "save_as_pickle"}) =>
          /\ Len(heap'[call.bboxes].v) = Len(heap[call.bboxes].v)
          /\ \A i \in 1..Len(heap[call.bboxes].v) : heap'[call.bboxes].v[i] = heap[call.bboxes].v[i]
          /\ heap'[call.classIds].v = heap[call.classIds].v
          /\ call.fn = "preproc" =>
                /\ call'.ret[2] = call.classIds
                /\ call'.ret[1] # call.bboxes
                /\ SameShape(heap'[call'.ret[1]].v, heap[call.bboxes].v)]_vars

\* preproc has returned an image that differs from the one it was given
C4_Witness ==
    /\ pc = "returned" /\ call.fn = "preproc"
    /\ Len(heap[call.bboxes].v) = MaxLen
    /\ heap[call.bboxes].v[1] = TwoTone
    /\ heap[call.ret[1]].v[1][1][1] = <<0, 255>>
    /\ heap[call.ret[1]].v[1][IMG_HEIGHT][1] = <<255, 255>>

SaveReturned == pc = "returned" /\ call.fn = "save_as_pickle"
Saved == dumped[Len(dumped)].save
SavedBboxes ==
    IF "train_bboxes" \in DOMAIN Saved THEN Saved.train_bboxes.v ELSE Saved.test_bboxes.v
SavedClassIds ==
    IF "train_classIds" \in DOMAIN Saved THEN Saved.train_classIds.v ELSE Saved.test_classIds.v

\* C7: the dictionary written has the keys train_bboxes and train_classIds
\* exactly when train_or_test is 'train', and test_bboxes and test_classIds
\* for any other value: two keys, of one kind; without shuffle the arrays
\* stored are the arrays given, entry by entry.
C7_KeysFollowTrainOrTest ==
    SaveReturned =>
        /\ Len(dumped) = 1
        /\ dumped[1].pkl_fname = call.pkl_fname
        /\ call.train_or_test = "train" <=> DOMAIN Saved = {"train_bboxes", "train_classIds"}
        /\ call.train_or_test # "train" => DOMAIN Saved = {"test_bboxes", "test_classIds"}
        /\ Cardinality(DOMAIN Saved) = 2
        /\ ~call.shuffle =>
              /\ SavedBboxes = heap[call.bboxes].v
              /\ SavedClassIds = heap[call.classIds].v

C7_Witness ==
    /\ SaveReturned
    /\ call.train_or_test = "valid"
    /\ ~call.shuffle
    /\ Len(heap[call.bboxes].v) = MaxLen
    /\ DOMAIN Saved = {"test_bboxes", "test_classIds"}

\* C8: with shuffle the arrays stored are the arrays given under one
\* permutation: some one-to-one p has stored image j = image p[j] and
\* stored label j = label p[j] for every j, so the lengths and the pairs
\* (image, label), counted with repetition, are those given.
C8_OnePermutation ==
    (SaveReturned /\ call.shuffle) =>
        LET b == heap[call.bboxes].v
            ids == heap[call.classIds].v
        IN  /\ Len(SavedBboxes) = Len(b)
            /\ Len(SavedClassIds) = Len(ids)
            /\ \E p \in [1..Len(b) -> 1..Len(b)] :
                  /\ \A i \in 1..Len(b) : \E j \in 1..Len(b) : p[j] = i
                  /\ \A j \in 1..Len(b) :
                        SavedBboxes[j] = b[p[j]] /\ SavedClassIds[j] = ids[p[j]]

\* two different samples have been stored in the other order
C8_Witness ==
    /\ SaveReturned /\ call.shuffle
    /\ Len(heap[call.bboxes].v) = 2
    /\ heap[call.bboxes].v[1] # heap[call.bboxes].v[2]
    /\ heap[call.classIds].v[1] # heap[call.classIds].v[2]
    /\ SavedBboxes[1] = heap[call.bboxes].v[2]
    /\ SavedClassIds[1] = heap[call.classIds].v[2]

ParseDone == call.fn = "parse_gt_csv" /\ pc # "call"
Lines == gt_csv_getline(fs, call.gt_csvs)

\* C9 as claimed: whatever the files and data_size, parse_gt_csv returns
\* arrays with one entry for each line yielded and no other: entry i is the
\* region and the class id of line i.
C9_OneEntryPerLine ==
    ParseDone =>
        /\ pc = "returned"
        /\ Len(heap[call.ret[1]].v) = Len(Lines)
        /\ Len(heap[call.ret[2]].v) = Len(Lines)
        /\ \A i \in 1..Len(Lines) :
              /\ heap[call.ret[1]].v[i] = GtBbox(Lines[i])
              /\ heap[call.ret[2]].v[i] = Lines[i].classId

\* The rows of the files of the list, files in list order and rows in file
\* order, written out for lists of up to two files.
LinesInOrder ==
    LET row(f, i) == [img_file_path |-> [dir |-> f.root, name |-> fs[f][i].Filename],
                      bbox |-> fs[f][i].Roi, classId |-> fs[f][i].ClassId]
        of(f) == [i \in 1..Len(fs[f]) |-> row(f, i)]
        l == call.gt_csvs
    IN  IF Len(l) = 0 THEN <<>>
        ELSE IF Len(l) = 1 THEN of(l[1])
        ELSE of(l[1]) \o of(l[2])

\* C9 amended: parse_gt_csv returns exactly when no more than data_size
\* lines are yielded, and otherwise raises IndexError and returns nothing.
\* The arrays returned have data_size entries: entry i is the region and the
\* class id of line i for each line, in yield order, and each entry beyond
\* the lines is an all-zero image with class id 0.  So there is one entry
\* per line and no other exactly when data_size is the number of lines.
C9_OneEntryPerLineUpToDataSize ==
    ParseDone =>
        /\ Lines = LinesInOrder
        /\ pc = "raised" <=> Len(Lines) > call.data_size
        /\ pc = "raised" => call.ret = <<>>
        /\ pc = "returned" =>
              LET outB == heap[call.ret[1]].v
                  outC == heap[call.ret[2]].v
              IN  /\ Len(outB) = call.data_size
                  /\ Len(outC) = call.data_size
                  /\ \A i \in 1..Len(Lines) :
                        /\ outB[i] = Resize(Crop(ImRead(Lines[i].img_file_path), Lines[i].bbox))
                        /\ outC[i] = Lines[i].classId
                  /\ \A i \in (Len(Lines) + 1)..call.data_size :
                        /\ outB[i] = ZeroImage
                        /\ outC[i] = 0

\* two files of one row each, the second file first in the list, and as
\* many entries as lines
C9_Witness ==
    /\ ParseDone /\ pc = "returned"
    /\ call.gt_csvs = <<CsvOf("train/1"), CsvOf("train/0")>>
    /\ Len(fs[CsvOf("train/0")]) = 1
    /\ Len(fs[CsvOf("train/1")]) = 1
    /\ fs[CsvOf("train/1")][1].ClassId = 1
    /\ fs[CsvOf("train/0")][1].ClassId = 0
    /\ fs[CsvOf("train/1")][1].Roi = CornerRoi
    /\ call.data_size = 2
    /\ heap[call.ret[2]].v = <<1, 0>>

====
